---- MODULE Spec2Model ----
(***************************************************************************)
(* Model of LexBedrockBot.py: the Lambda fulfilment handler of the Lex     *)
(* image-generation bot.  Two invocations of lambda_handler run            *)
(* concurrently against one S3 bucket.  Python dicts are records, Python   *)
(* exceptions are tagged results, and a Python str that may also be None   *)
(* is a one-field record so that both fit in the same slot.                *)
(***************************************************************************)
EXTENDS Integers, Sequences, FiniteSets, TLC

VARIABLES
    pc,               \* position of each invocation in lambda_handler
    event,            \* the (mutable) event dict of each invocation
    event0,           \* history: the event as it was delivered
    response_body,    \* local of lambda_handler, line 123
    base_64_img_str,  \* local of lambda_handler, line 126
    temp_file_name,   \* local of generate_and_save_image, line 62
    presignedurl,     \* local of generate_and_save_image, line 73
    shorturl,         \* local of generate_and_save_image, line 84
    result,           \* what the invocation handed back to the Lambda runtime
    trace,            \* history: the pipeline steps each invocation has run
    closeCall,        \* history: the arguments of the call of close
    bucket            \* the S3 bucket: object key -> latest object

vars == <<pc, event, event0, response_body, base_64_img_str, temp_file_name,
          presignedurl, shorturl, result, trace, closeCall, bucket>>

----------------------------------------------------------------------------
(* Bounds and input sets *)

\* random.randint(1, 100000000000000000) draws from 1..RandMax
RandMax == 2

\* the invocations that run concurrently
Procs == {"inv1", "inv2"}

None == [py |-> "None"]

EmptyDict == [k \in {} |-> "v"]

s3_bucket == "image-gen-output-bucket"

ExpiresIn == 604800

Utterances == {"", "Generate an image of a red bicycle"}

SessionAttributeMaps == {[user |-> "u1"]}

RequestAttributeMaps == {[channel |-> "web"]}

IntentStates == {"InProgress", "ReadyForFulfillment"}

FulfillmentStates == {"Fulfilled", "Failed"}

\* the event Lex delivers; sa and ra are None when the event has no such key
MkEvent(u, sa, ra, st, sid) ==
    LET intent == [name |-> "GenerateImageIntent", state |-> st]
        ss == IF sa = None THEN [intent |-> intent]
              ELSE [intent |-> intent, sessionAttributes |-> sa]
        base == [inputTranscript |-> u, sessionId |-> sid, sessionState |-> ss]
    IN  IF ra = None THEN base ELSE base @@ [requestAttributes |-> ra]

Events ==
    { MkEvent(u, sa, ra, "ReadyForFulfillment", "session-1") :
        u \in Utterances,
        sa \in SessionAttributeMaps \cup {None},
        ra \in RequestAttributeMaps \cup {None} }

CloseRequests ==
    { MkEvent(u, sa, ra, st, sid) :
        u \in {"Generate an image of a red bicycle"},
        sa \in SessionAttributeMaps \cup {None},
        ra \in RequestAttributeMaps \cup {None},
        st \in IntentStates,
        sid \in {"session-1", "session-2"} }

\* a Python str in a slot that may hold None
Str(s) == [str |-> s]

\* what bedrock_runtime.invoke_model can hand back in response["body"]
ModelBodies ==
    { [json |-> FALSE],
      [json |-> TRUE, doc |-> [result |-> "error"]],
      [json |-> TRUE, doc |-> [result |-> "success", artifacts |-> <<>>]],
      [json |-> TRUE, doc |-> [result |-> "success",
                               artifacts |-> << [finishReason |-> "ERROR"] >>]],
      [json |-> TRUE, doc |-> [result |-> "success",
                               artifacts |-> << [finishReason |-> "SUCCESS", base64 |-> Str("not base64") ] >>]],
      [json |-> TRUE, doc |-> [result |-> "success",
                               artifacts |-> << [finishReason |-> "SUCCESS", base64 |-> Str("base64 of text") ] >>]],
      [json |-> TRUE, doc |-> [result |-> "success",
                               artifacts |-> << [finishReason |-> "SUCCESS", base64 |-> Str("base64 of png") ] >>]],
      [json |-> TRUE, doc |-> [result |-> "success",
                               artifacts |-> << [finishReason |-> "SUCCESS", base64 |-> Str("base64 of png") ],
                                                [finishReason |-> "SUCCESS", base64 |-> Str("base64 of text") ] >>]] }

\* an external call ends normally, with botocore's ClientError, or with an
\* exception that is not a ClientError
CallOutcomes == {"ok", "ClientError", "OtherError"}

----------------------------------------------------------------------------
(* Results of an invocation *)

Pending == [kind |-> "pending"]

Return(v) == [kind |-> "return", value |-> v]

Raise(e) == [kind |-> "raise", exc |-> e]

Step(name, outcome, key) == [step |-> name, outcome |-> outcome, key |-> key]

\* lambda_handler's try/except: a ClientError is logged and the handler falls
\* off its end (returns None); any other exception leaves the handler
HandlerExcept(e) == IF e = "ClientError" THEN Return(None) ELSE Raise(e)

----------------------------------------------------------------------------
(* Pure functions *)

get_session_attributes(intent_request) ==
    LET sessionState == intent_request.sessionState
    IN  IF "sessionAttributes" \in DOMAIN sessionState
        THEN sessionState.sessionAttributes
        ELSE EmptyDict

\* close with the envelope's intent copied before the assignment of line 40
close_staleIntent(intent_request, session_attributes, fulfillment_state, message) ==
    LET req == [intent_request EXCEPT !.sessionState.intent.state = fulfillment_state]
    IN  [intent_request |-> req,
         ret |-> [sessionState |-> [sessionAttributes |-> session_attributes,
                                    dialogAction |-> [type |-> "Close"],
                                    intent |-> intent_request.sessionState.intent],
                  messages |-> << message >>,
                  sessionId |-> req.sessionId,
                  requestAttributes |-> IF "requestAttributes" \in DOMAIN req
                                        THEN req.requestAttributes
                                        ELSE None]]

\* close with line 40 assigning a fresh intent dict instead of the state key
close_replacesIntent(intent_request, session_attributes, fulfillment_state, message) ==
    LET req == [intent_request EXCEPT !.sessionState.intent = [state |-> fulfillment_state]]
    IN  [intent_request |-> req,
         ret |-> [sessionState |-> [sessionAttributes |-> session_attributes,
                                    dialogAction |-> [type |-> "Close"],
                                    intent |-> req.sessionState.intent],
                  messages |-> << message >>,
                  sessionId |-> req.sessionId,
                  requestAttributes |-> IF "requestAttributes" \in DOMAIN req
                                        THEN req.requestAttributes
                                        ELSE None]]

\* close assigns into its argument and returns the envelope: the pair of
\* the request as the call leaves it and the value returned
close(intent_request, session_attributes, fulfillment_state, message) ==
    LET req == [intent_request EXCEPT !.sessionState.intent.state = fulfillment_state]
    IN  [intent_request |-> req,
         ret |-> [sessionState |-> [sessionAttributes |-> session_attributes,
                                    dialogAction |-> [type |-> "Close"],
                                    intent |-> req.sessionState.intent],
                  messages |-> << message >>,
                  sessionId |-> req.sessionId,
                  requestAttributes |-> IF "requestAttributes" \in DOMAIN req
                                        THEN req.requestAttributes
                                        ELSE None]]

FileName(n) == [prefix |-> "generatedImage_", n |-> n, ext |-> ".png"]

PresignedUrl(bkt, key) ==
    [method |-> "get_object", Bucket |-> bkt, Key |-> key, ExpiresIn |-> ExpiresIn]

TinyUrl(url) == [tinyurl |-> url]

MessageText(url) ==
    [text |-> "An image has been generated and saved in a S3 bucket. A s3 presigned url has been generated and image can be downloaded from the url ",
     url |-> url]

\* lines 123-126: json.loads, ["artifacts"][0], .get("base64")
DecodeBody(body) ==
    IF ~body.json THEN Raise("JSONDecodeError")
    ELSE IF "artifacts" \notin DOMAIN body.doc THEN Raise("KeyError")
    ELSE IF Len(body.doc.artifacts) = 0 THEN Raise("IndexError")
    ELSE LET a == body.doc.artifacts[1]
         IN  Return(IF "base64" \in DOMAIN a THEN a.base64 ELSE None)

\* line 60: bytes(...), base64.decodebytes, Image.open
OpenImage(b64) ==
    IF b64 = None THEN Raise("TypeError")
    ELSE IF b64 = Str("not base64") THEN Raise("binascii.Error")
    ELSE IF b64 = Str("base64 of png") THEN Return("png image")
    ELSE Raise("UnidentifiedImageError")

----------------------------------------------------------------------------
(* The handler, one action per step *)

Finish(p, r) ==
    /\ pc' = [pc EXCEPT ![p] = "done"]
    /\ result' = [result EXCEPT ![p] = r]

\* InvokeModel with one more attempt after a ClientError
InvokeModel_retries(p) ==
    /\ pc[p] = "start"
    /\ \E o \in CallOutcomes :
        /\ trace' = [trace EXCEPT ![p] = Append(@, Step("invoke_model", o, None))]
        /\ IF o = "ok"
           THEN /\ \E body \in ModelBodies :
                     response_body' = [response_body EXCEPT ![p] = body]
                /\ pc' = [pc EXCEPT ![p] = "decode"]
                /\ UNCHANGED result
           ELSE IF o = "ClientError" /\ trace[p] = <<>>
           THEN UNCHANGED <<pc, result, response_body>>
           ELSE /\ Finish(p, HandlerExcept(o))
                /\ UNCHANGED response_body
    /\ UNCHANGED <<event, event0, base_64_img_str, temp_file_name, presignedurl,
                   shorturl, closeCall, bucket>>

\* lines 96-120: build the request and call bedrock_runtime.invoke_model
InvokeModel(p) ==
    /\ pc[p] = "start"
    /\ \E o \in CallOutcomes :
        /\ trace' = [trace EXCEPT ![p] = Append(@, Step("invoke_model", o, None))]
        /\ IF o = "ok"
           THEN /\ \E body \in ModelBodies :
                     response_body' = [response_body EXCEPT ![p] = body]
                /\ pc' = [pc EXCEPT ![p] = "decode"]
                /\ UNCHANGED result
           ELSE /\ Finish(p, HandlerExcept(o))
                /\ UNCHANGED response_body
    /\ UNCHANGED <<event, event0, base_64_img_str, temp_file_name, presignedurl,
                   shorturl, closeCall, bucket>>

\* lines 123-127: decode the response body and take the first artifact
Decode(p) ==
    /\ pc[p] = "decode"
    /\ LET d == DecodeBody(response_body[p])
       IN  IF d.kind = "return"
           THEN /\ base_64_img_str' = [base_64_img_str EXCEPT ![p] = d.value]
                /\ trace' = [trace EXCEPT ![p] = Append(@, Step("decode", "ok", None))]
                /\ pc' = [pc EXCEPT ![p] = "image"]
                /\ UNCHANGED result
           ELSE /\ trace' = [trace EXCEPT ![p] = Append(@, Step("decode", d.exc, None))]
                /\ Finish(p, HandlerExcept(d.exc))
                /\ UNCHANGED base_64_img_str
    /\ UNCHANGED <<event, event0, response_body, temp_file_name, presignedurl,
                   shorturl, closeCall, bucket>>

\* lines 57-67: open the image, draw the file name, save the temporary file
SaveImage(p) ==
    /\ pc[p] = "image"
    /\ LET img == OpenImage(base_64_img_str[p])
       IN  IF img.kind = "return"
           THEN /\ \E n \in 1..RandMax :
                     temp_file_name' = [temp_file_name EXCEPT ![p] = FileName(n)]
                /\ trace' = [trace EXCEPT ![p] = Append(@, Step("image", "ok", None))]
                /\ pc' = [pc EXCEPT ![p] = "upload"]
                /\ UNCHANGED result
           ELSE /\ trace' = [trace EXCEPT ![p] = Append(@, Step("image", img.exc, None))]
                /\ Finish(p, HandlerExcept(img.exc))
                /\ UNCHANGED temp_file_name
    /\ UNCHANGED <<event, event0, response_body, base_64_img_str, presignedurl,
                   shorturl, closeCall, bucket>>

\* Upload with a failure of upload_file swallowed
Upload_swallowsFailure(p) ==
    /\ pc[p] = "upload"
    /\ \E o \in CallOutcomes :
        /\ trace' = [trace EXCEPT ![p] = Append(@, Step("upload_file", o, temp_file_name[p]))]
        /\ bucket' = IF o = "ok"
                     THEN [k \in DOMAIN bucket \cup {temp_file_name[p]} |->
                             IF k = temp_file_name[p]
                             THEN [data |-> base_64_img_str[p], by |-> p]
                             ELSE bucket[k]]
                     ELSE bucket
        /\ pc' = [pc EXCEPT ![p] = "presign"]
        /\ UNCHANGED result
    /\ UNCHANGED <<event, event0, response_body, base_64_img_str, temp_file_name,
                   presignedurl, shorturl, closeCall>>

\* lines 69-71: s3_client.upload_file
Upload(p) ==
    /\ pc[p] = "upload"
    /\ \E o \in CallOutcomes :
        /\ trace' = [trace EXCEPT ![p] = Append(@, Step("upload_file", o, temp_file_name[p]))]
        /\ IF o = "ok"
           THEN /\ bucket' = [k \in DOMAIN bucket \cup {temp_file_name[p]} |->
                                IF k = temp_file_name[p]
                                THEN [data |-> base_64_img_str[p], by |-> p]
                                ELSE bucket[k]]
                /\ pc' = [pc EXCEPT ![p] = "presign"]
                /\ UNCHANGED result
           ELSE /\ Finish(p, HandlerExcept(o))
                /\ UNCHANGED bucket
    /\ UNCHANGED <<event, event0, response_body, base_64_img_str, temp_file_name,
                   presignedurl, shorturl, closeCall>>

\* lines 73-80: s3_client.generate_presigned_url
Presign(p) ==
    /\ pc[p] = "presign"
    /\ \E o \in CallOutcomes :
        /\ trace' = [trace EXCEPT ![p] = Append(@, Step("generate_presigned_url", o, temp_file_name[p]))]
        /\ IF o = "ok"
           THEN /\ presignedurl' = [presignedurl EXCEPT ![p] = PresignedUrl(s3_bucket, temp_file_name[p])]
                /\ pc' = [pc EXCEPT ![p] = "shorten"]
                /\ UNCHANGED result
           ELSE /\ Finish(p, HandlerExcept(o))
                /\ UNCHANGED presignedurl
    /\ UNCHANGED <<event, event0, response_body, base_64_img_str, temp_file_name,
                   shorturl, closeCall, bucket>>

\* lines 83-84: pyshorteners' tinyurl.short; its errors are not ClientErrors
Shorten(p) ==
    /\ pc[p] = "shorten"
    /\ \E o \in {"ok", "OtherError"} :
        /\ trace' = [trace EXCEPT ![p] = Append(@, Step("short", o, temp_file_name[p]))]
        /\ IF o = "ok"
           THEN /\ shorturl' = [shorturl EXCEPT ![p] = TinyUrl(presignedurl[p])]
                /\ pc' = [pc EXCEPT ![p] = "respond"]
                /\ UNCHANGED result
           ELSE /\ Finish(p, HandlerExcept(o))
                /\ UNCHANGED shorturl
    /\ UNCHANGED <<event, event0, response_body, base_64_img_str, temp_file_name,
                   presignedurl, closeCall, bucket>>

\* lines 85-92 and 130: build the message, call close, return its envelope
Respond(p) ==
    /\ pc[p] = "respond"
    /\ LET session_attributes == get_session_attributes(event[p])
           message == [contentType |-> "PlainText", content |-> MessageText(shorturl[p])]
           fulfillment_state == "Fulfilled"
           c == close(event[p], session_attributes, fulfillment_state, message)
       IN  /\ closeCall' = [closeCall EXCEPT ![p] =
                              [intent_request |-> event[p],
                               session_attributes |-> session_attributes,
                               fulfillment_state |-> fulfillment_state,
                               message |-> message]]
           /\ event' = [event EXCEPT ![p] = c.intent_request]
           /\ trace' = [trace EXCEPT ![p] = Append(@, Step("close", "ok", temp_file_name[p]))]
           /\ Finish(p, Return(c.ret))
    /\ UNCHANGED <<event0, response_body, base_64_img_str, temp_file_name,
                   presignedurl, shorturl, bucket>>

Init ==
    /\ pc = [p \in Procs |-> "start"]
    /\ event \in [Procs -> Events]
    /\ event0 = event
    /\ response_body = [p \in Procs |-> None]
    /\ base_64_img_str = [p \in Procs |-> None]
    /\ temp_file_name = [p \in Procs |-> None]
    /\ presignedurl = [p \in Procs |-> None]
    /\ shorturl = [p \in Procs |-> None]
    /\ result = [p \in Procs |-> Pending]
    /\ trace = [p \in Procs |-> <<>>]
    /\ closeCall = [p \in Procs |-> None]
    /\ bucket = EmptyDict

Next ==
    \E p \in Procs :
        \/ InvokeModel(p)
        \/ Decode(p)
        \/ SaveImage(p)
        \/ Upload(p)
        \/ Presign(p)
        \/ Shorten(p)
        \/ Respond(p)

Spec == Init /\ [][Next]_vars

----------------------------------------------------------------------------
(* close on its own: every request, session attribute map, fulfilment     *)
(* state and message                                                      *)

Messages ==
    { [contentType |-> "PlainText",
       content |-> MessageText(TinyUrl(PresignedUrl(s3_bucket, FileName(1))))],
      [contentType |-> "PlainText",
       content |-> [text |-> "The image could not be generated", url |-> None]] }

CallClose(p) ==
    /\ pc[p] = "call_close"
    /\ \E session_attributes \in SessionAttributeMaps \cup {EmptyDict},
          fulfillment_state \in FulfillmentStates,
          message \in Messages :
        LET c == close(event[p], session_attributes, fulfillment_state, message)
        IN  /\ closeCall' = [closeCall EXCEPT ![p] =
                               [intent_request |-> event[p],
                                session_attributes |-> session_attributes,
                                fulfillment_state |-> fulfillment_state,
                                message |-> message]]
            /\ event' = [event EXCEPT ![p] = c.intent_request]
            /\ trace' = [trace EXCEPT ![p] = Append(@, Step("close", "ok", None))]
            /\ Finish(p, Return(c.ret))
    /\ UNCHANGED <<event0, response_body, base_64_img_str, temp_file_name,
                   presignedurl, shorturl, bucket>>

InitClose ==
    /\ pc = [p \in Procs |-> "call_close"]
    /\ event \in [Procs -> CloseRequests]
    /\ event0 = event
    /\ response_body = [p \in Procs |-> None]
    /\ base_64_img_str = [p \in Procs |-> None]
    /\ temp_file_name = [p \in Procs |-> None]
    /\ presignedurl = [p \in Procs |-> None]
    /\ shorturl = [p \in Procs |-> None]
    /\ result = [p \in Procs |-> Pending]
    /\ trace = [p \in Procs |-> <<>>]
    /\ closeCall = [p \in Procs |-> None]
    /\ bucket = EmptyDict

NextClose == \E p \in Procs : CallClose(p)

SpecClose == InitClose /\ [][NextClose]_vars

----------------------------------------------------------------------------
(* Vocabulary of the properties *)

StepsOf(p, name) == { i \in 1..Len(trace[p]) : trace[p][i].step = name }

Succeeded(p, name) == \E i \in StepsOf(p, name) : trace[p][i].outcome = "ok"

FailedWith(p, name, outcomes) == \E i \in StepsOf(p, name) : trace[p][i].outcome \in outcomes

Errors == {"ClientError", "OtherError"}

ReturnedEnvelope(p) == result[p].kind = "return" /\ result[p].value # None

ReturnedState(p, st) ==
    /\ ReturnedEnvelope(p)
    /\ result[p].value.sessionState.intent.state = st

ReturnedReason(p, reason) ==
    /\ ReturnedState(p, "Failed")
    /\ result[p].value.messages[1].content.text = reason

ReturnedLink(p) ==
    /\ ReturnedEnvelope(p)
    /\ result[p].value.messages[1].content.url # None

PipelineOrder ==
    << "invoke_model", "decode", "image", "upload_file",
       "generate_presigned_url", "short", "close" >>

----------------------------------------------------------------------------
(* Properties *)

\* C1: every finished invocation with a non-empty utterance has returned a
\* response envelope whose intent state is "Fulfilled" or "Failed"; it has
\* neither returned None nor raised.
C1_AlwaysEnvelope ==
    \A p \in Procs :
        (pc[p] = "done" /\ event0[p].inputTranscript # "")
            => /\ ReturnedEnvelope(p)
               /\ result[p].value.sessionState.intent.state \in FulfillmentStates

\* C2: when invoke_model fails with a ClientError the invocation makes no
\* upload, presign or shortening call and ends by returning a Failed envelope.
C2_ModelFailureReturnsFailed ==
    \A p \in Procs :
        FailedWith(p, "invoke_model", {"ClientError"})
            => /\ StepsOf(p, "upload_file") = {}
               /\ StepsOf(p, "generate_presigned_url") = {}
               /\ StepsOf(p, "short") = {}
               /\ pc[p] = "done" => ReturnedState(p, "Failed")

ZeroArtifacts(body) ==
    /\ body # None
    /\ body.json
    /\ "artifacts" \in DOMAIN body.doc => Len(body.doc.artifacts) = 0

\* C3: when the model's response body holds no artifact the invocation makes
\* no upload and ends by returning a Failed envelope with a DecodeError reason.
C3_ZeroArtifactsReturnsFailed ==
    \A p \in Procs :
        ZeroArtifacts(response_body[p])
            => /\ StepsOf(p, "upload_file") = {}
               /\ pc[p] = "done" => ReturnedReason(p, "DecodeError")

\* C4: when upload_file fails no link is presigned or shortened afterwards and
\* the invocation ends by returning a Failed envelope with a PersistenceError
\* reason and no link in its message.
C4_UploadFailureReturnsFailed ==
    \A p \in Procs :
        FailedWith(p, "upload_file", Errors)
            => /\ StepsOf(p, "generate_presigned_url") = {}
               /\ StepsOf(p, "short") = {}
               /\ pc[p] = "done" => /\ ReturnedReason(p, "PersistenceError")
                                    /\ ~ReturnedLink(p)

\* C5: when upload and presign succeed and the shortening call fails, the
\* invocation still ends by returning a Fulfilled envelope whose message
\* embeds the un-shortened pre-signed URL.
C5_ShortenFailureFallsBack ==
    \A p \in Procs :
        (/\ Succeeded(p, "upload_file")
         /\ Succeeded(p, "generate_presigned_url")
         /\ FailedWith(p, "short", Errors)
         /\ pc[p] = "done")
            => /\ ReturnedState(p, "Fulfilled")
               /\ result[p].value.messages[1].content.url = presignedurl[p]

\* C6: two invocations with the same utterance that both reached the persist
\* step hold distinct object keys.
C6_DistinctKeys ==
    \A p, q \in Procs :
        (/\ p # q
         /\ event0[p].inputTranscript = event0[q].inputTranscript
         /\ temp_file_name[p] # None
         /\ temp_file_name[q] # None)
            => temp_file_name[p] # temp_file_name[q]

\* C7: an envelope whose message carries a link is returned only after, in the
\* same invocation, upload_file succeeded for the link's key and then
\* generate_presigned_url succeeded for the same bucket and key.
C7_LinkOnlyAfterUploadAndPresign ==
    \A p \in Procs :
        ReturnedLink(p)
            => LET url == result[p].value.messages[1].content.url.tinyurl
               IN  /\ url.Bucket = s3_bucket
                   /\ url.Key \in DOMAIN bucket
                   /\ \E i, j \in 1..Len(trace[p]) :
                        /\ i < j
                        /\ trace[p][i] = Step("upload_file", "ok", url.Key)
                        /\ trace[p][j] = Step("generate_presigned_url", "ok", url.Key)

C7_Witness ==
    \E p \in Procs : ReturnedLink(p) /\ pc[p] = "done"

\* C8: the envelope close returns has the given fulfilment state as its intent
\* state, exactly the given message in messages, the given session attributes,
\* the request's sessionId and the request's requestAttributes (None when the
\* request has none).
C8_CloseEnvelope ==
    \A p \in Procs :
        closeCall[p] # None
            => LET c == closeCall[p]
                   env == result[p].value
               IN  /\ env.sessionState.intent.state = c.fulfillment_state
                   /\ env.sessionState.intent.name = c.intent_request.sessionState.intent.name
                   /\ env.sessionState.dialogAction.type = "Close"
                   /\ env.messages = << c.message >>
                   /\ env.sessionState.sessionAttributes = c.session_attributes
                   /\ env.sessionId = c.intent_request.sessionId
                   /\ env.requestAttributes =
                        IF "requestAttributes" \in DOMAIN c.intent_request
                        THEN c.intent_request.requestAttributes
                        ELSE None

C8_Witness ==
    \E p, q \in Procs :
        /\ closeCall[p] # None
        /\ closeCall[p].fulfillment_state = "Failed"
        /\ "requestAttributes" \notin DOMAIN closeCall[p].intent_request
        /\ closeCall[q] # None
        /\ closeCall[q].fulfillment_state = "Fulfilled"
        /\ "requestAttributes" \in DOMAIN closeCall[q].intent_request

\* C9: the steps of an invocation run in the pipeline's order, each at most
\* once and each only after the one before it succeeded, and a finished
\* invocation runs no further step.
C9_OnePassInOrder ==
    /\ [](\A p \in Procs :
            /\ Len(trace[p]) <= Len(PipelineOrder)
            /\ \A i \in 1..Len(trace[p]) :
                 /\ trace[p][i].step = PipelineOrder[i]
                 /\ i < Len(trace[p]) => trace[p][i].outcome = "ok")
    /\ [][\A p \in Procs :
            pc[p] = "done" => /\ pc'[p] = "done"
                              /\ trace'[p] = trace[p]
                              /\ result'[p] = result[p]]_vars

C9_Witness ==
    \E p, q \in Procs :
        /\ pc[p] = "done" /\ Len(trace[p]) = Len(PipelineOrder)
        /\ pc[q] = "done" /\ FailedWith(q, "upload_file", Errors)

\* C10 as claimed: a call of close leaves the request as it was.
C10_CloseLeavesRequest ==
    \A p \in Procs :
        closeCall[p] # None => event[p] = closeCall[p].intent_request

\* C10: a call of close changes the request in sessionState.intent.state,
\* which it sets to the fulfilment state passed in, and in nothing else.
C10_CloseSetsIntentState ==
    \A p \in Procs :
        closeCall[p] # None
            => event[p] = [closeCall[p].intent_request EXCEPT
                             !.sessionState.intent.state = closeCall[p].fulfillment_state]

C10_Witness ==
    \E p \in Procs :
        /\ closeCall[p] # None
        /\ closeCall[p].fulfillment_state = "Failed"
        /\ event[p].sessionState.intent.state = "Failed"
        /\ event0[p].sessionState.intent.state = "InProgress"

====
